---------------------------- MODULE Spec2Model ----------------------------
(***************************************************************************)
(* Model of pcr/utils.py: the four view decorators authenticate, allow,    *)
(* parameter and pagination.  Every decorator wraps a view `func`; one     *)
(* action of the model is one call of the decorator's `wrapper` on one     *)
(* request, the call of `func` it may make included.                       *)
(*                                                                         *)
(* Python strings are sequences of one-character strings, so that          *)
(* int(), str() and the `in` operator on strings are computed rather than  *)
(* assumed.  JSON values and the values of request attributes are tagged   *)
(* records [t |-> tag, v |-> payload].                                     *)
(***************************************************************************)
EXTENDS Integers, Sequences, FiniteSets, TLC

VARIABLES
    users,      \* ids of the rows of the User table
    methods,    \* allow(methods): the allowed verbs
    schema,     \* parameter(schema): the JSON Schema
    pager,      \* pagination(default, min_size, max_size)
    decorator,  \* the decorator func is wrapped in
    pc,         \* "ready" until the wrapper is called, "done" when it ended
    request,    \* the request as the wrapper received it
    attrs,      \* the attributes set on the request object when the wrapper ended
    data,       \* parameter.wrapper's local variable `data`
    outcome,    \* how the wrapper ended: a returned response or a raised exception
    calls,      \* one entry per call of func: the request attributes func saw
    previous    \* request.data of the call whose result is being sent again

vars == <<users, methods, schema, pager, decorator, pc, request, attrs, data,
          outcome, calls, previous>>

construction == <<users, methods, schema, pager, decorator>>

-----------------------------------------------------------------------------
(* Bounds of the model *)

\* pagination's default, min_size and max_size range over 0..MaxArg
MaxArg == 3

-----------------------------------------------------------------------------
(* Python strings *)

Digits == <<"0", "1", "2", "3", "4", "5", "6", "7", "8", "9">>

IsDigit(c) == \E i \in 1..Len(Digits) : Digits[i] = c

DigitValue(c) == (CHOOSE i \in 1..Len(Digits) : Digits[i] = c) - 1

Last(s) == s[Len(s)]

\* str.strip() of the blanks int() ignores around its argument
RECURSIVE LStrip(_)
LStrip(s) == IF s # <<>> /\ Head(s) = " " THEN LStrip(Tail(s)) ELSE s

RECURSIVE RStrip(_)
RStrip(s) ==
    IF s # <<>> /\ Last(s) = " " THEN RStrip(SubSeq(s, 1, Len(s) - 1)) ELSE s

Strip(s) == RStrip(LStrip(s))

HasSign(s) == s # <<>> /\ Head(s) \in {"+", "-"}

Unsigned(s) == IF HasSign(s) THEN Tail(s) ELSE s

\* the digit part of an integer literal: digits, single underscores between them
IsDigitPart(s) ==
    /\ s # <<>>
    /\ IsDigit(Head(s))
    /\ IsDigit(Last(s))
    /\ \A i \in 1..Len(s) : IsDigit(s[i]) \/ s[i] = "_"
    /\ \A i \in 1..(Len(s) - 1) : ~(s[i] = "_" /\ s[i + 1] = "_")

RECURSIVE DigitsValue(_, _)
DigitsValue(s, acc) ==
    IF s = <<>> THEN acc
    ELSE IF Head(s) = "_" THEN DigitsValue(Tail(s), acc)
    ELSE DigitsValue(Tail(s), 10 * acc + DigitValue(Head(s)))

\* int(s) raises ValueError
IntRaises(s) == ~IsDigitPart(Unsigned(Strip(s)))

\* int(s), for a string s on which int() does not raise
IntOf(s) ==
    LET t == Strip(s)
        n == DigitsValue(Unsigned(t), 0)
    IN  IF HasSign(t) /\ Head(t) = "-" THEN 0 - n ELSE n

RECURSIVE NatStr(_)
NatStr(n) ==
    IF n < 10 THEN <<Digits[n + 1]>>
    ELSE NatStr(n \div 10) \o <<Digits[(n % 10) + 1]>>

\* str(n) of an int
StrOf(n) == IF n < 0 THEN <<"-">> \o NatStr(0 - n) ELSE NatStr(n)

\* `key in s` for two strings: s has key as a substring
StrContains(s, key) ==
    \E i \in 1..(Len(s) + 1) :
        /\ i + Len(key) - 1 <= Len(s)
        /\ SubSeq(s, i, i + Len(key) - 1) = key

-----------------------------------------------------------------------------
(* Values *)

Null == [t |-> "null", v |-> <<>>]
Str(s) == [t |-> "str", v |-> s]
Num(n) == [t |-> "num", v |-> n]
List(l) == [t |-> "list", v |-> l]
Dict(d) == [t |-> "dict", v |-> d]
\* a QueryDict: every key maps to the list of its values
QueryDict(q) == [t |-> "querydict", v |-> q]
\* a local variable that was never assigned
Unbound == [t |-> "unbound", v |-> <<>>]

EmptyDict == <<>>

-----------------------------------------------------------------------------
(* Responses and exceptions *)

\* HttpResponse(status=s) built by a wrapper
HttpResponse(s) ==
    [kind |-> "return", by |-> "wrapper", class |-> "HttpResponse",
     status |-> s, content |-> "none"]

\* HttpResponseIncorrectParameter(content=err)
HttpResponseIncorrectParameter(err) ==
    [kind |-> "return", by |-> "wrapper",
     class |-> "HttpResponseIncorrectParameter", status |-> 0, content |-> err]

\* an exception that leaves the wrapper
Raise(exc) ==
    [kind |-> "raise", by |-> "wrapper", class |-> exc, status |-> 0,
     content |-> "none"]

\* whatever func returns
FuncResponse(s) ==
    [kind |-> "return", by |-> "func", class |-> "HttpResponse", status |-> s,
     content |-> "none"]

FuncResponses == {FuncResponse(200), FuncResponse(401)}

NoOutcome ==
    [kind |-> "none", by |-> "none", class |-> "none", status |-> 0,
     content |-> "none"]

\* the result of one call of a wrapper
Ended(a, o, c, d) == [attrs |-> a, outcome |-> o, calls |-> c, data |-> d]

\* `return func(request, *args, **kwargs)` with the attributes a set
CallFunc(a, rsp, d) ==
    Ended(a, rsp, <<[request |-> a, response |-> rsp]>>, d)

SetAttr(a, name, value) == (name :> value) @@ a

-----------------------------------------------------------------------------
(* Requests *)

Verbs == {"GET", "POST", "PUT"}

\* request attributes an outer layer may have set before the wrapper runs
StaleAttrs ==
    [user |-> [id |-> "stale"], data |-> Dict(EmptyDict), page |-> 77,
     size |-> 77]

IncomingAttrs == {<<>>, StaleAttrs}

NoBody == [utf8 |-> TRUE, toks |-> <<>>]

PlainRequest ==
    [method |-> "GET", content_type |-> "", body |-> NoBody, GET |-> <<>>,
     POST |-> <<>>, session |-> <<>>, attrs |-> <<>>]

-----------------------------------------------------------------------------
(* authenticate *)

UserIds == {"u1", "u2", "u3"}

\* request.session.get('user_id')
SessionUserId(req) ==
    IF "user_id" \in DOMAIN req.session THEN req.session.user_id ELSE "None"

\* User.objects.get(id=user_id) raises User.DoesNotExist
UserDoesNotExist(user_id) == user_id \notin users

\* User.objects.get(id=user_id), when it returns
UserObjectsGet(user_id) == [id |-> user_id]

\* faulty variant: the lookup's failure is ignored
authenticate_wrapper_no_check(req, rsp) ==
    CallFunc(SetAttr(req.attrs, "user", UserObjectsGet(SessionUserId(req))),
             rsp, Unbound)

\* authenticate's wrapper
authenticate_wrapper(req, rsp) ==
    LET user_id == SessionUserId(req)
    IN  IF UserDoesNotExist(user_id)
        THEN Ended(req.attrs, HttpResponse(401), <<>>, Unbound)
        ELSE CallFunc(SetAttr(req.attrs, "user", UserObjectsGet(user_id)),
                      rsp, Unbound)

AuthRequests ==
    { [PlainRequest EXCEPT !.method = m, !.session = s, !.attrs = a] :
        m \in Verbs,
        s \in {<<>>} \cup { [user_id |-> u] : u \in UserIds },
        a \in IncomingAttrs }

-----------------------------------------------------------------------------
(* allow *)

\* faulty variant: the verb is not checked
allow_wrapper_always(req, rsp) == CallFunc(req.attrs, rsp, Unbound)

\* allow's wrapper
allow_wrapper(req, rsp) ==
    IF req.method \notin methods
    THEN Ended(req.attrs, HttpResponse(404), <<>>, Unbound)
    ELSE CallFunc(req.attrs, rsp, Unbound)

AllowRequests ==
    { [PlainRequest EXCEPT !.method = m, !.attrs = a, !.session = s] :
        m \in Verbs \cup {"DELETE"},
        a \in IncomingAttrs,
        s \in {<<>>, [user_id |-> "u1"]} }

-----------------------------------------------------------------------------
(* json.loads: the body is a sequence of JSON tokens, or bytes that decode   *)
(* to no text at all                                                         *)

P(c) == [t |-> "p", v |-> c]
S(s) == [t |-> "s", v |-> s]
N(n) == [t |-> "n", v |-> n]
NullTok == [t |-> "null", v |-> <<>>]
\* a bare word that is no JSON literal
BadTok == [t |-> "bad", v |-> <<>>]

IsP(tok, c) == tok.t = "p" /\ tok.v = c

ParseFail == [ok |-> FALSE, val |-> Null, next |-> 0]
ParseOk(val, next) == [ok |-> TRUE, val |-> val, next |-> next]

RECURSIVE ParseValue(_, _), ParseElements(_, _, _), ParseMembers(_, _, _)

\* the JSON value that starts at token i
ParseValue(toks, i) ==
    IF i > Len(toks) THEN ParseFail
    ELSE LET tok == toks[i]
         IN  CASE tok.t = "s" -> ParseOk(Str(tok.v), i + 1)
               [] tok.t = "n" -> ParseOk(Num(tok.v), i + 1)
               [] tok.t = "null" -> ParseOk(Null, i + 1)
               [] IsP(tok, "[") ->
                    IF i + 1 <= Len(toks) /\ IsP(toks[i + 1], "]")
                    THEN ParseOk(List(<<>>), i + 2)
                    ELSE ParseElements(toks, i + 1, <<>>)
               [] IsP(tok, "{") ->
                    IF i + 1 <= Len(toks) /\ IsP(toks[i + 1], "}")
                    THEN ParseOk(Dict(EmptyDict), i + 2)
                    ELSE ParseMembers(toks, i + 1, EmptyDict)
               [] OTHER -> ParseFail

\* the rest of an array whose next element starts at token i
ParseElements(toks, i, acc) ==
    LET r == ParseValue(toks, i)
    IN  IF ~r.ok \/ r.next > Len(toks) THEN ParseFail
        ELSE IF IsP(toks[r.next], ",")
        THEN ParseElements(toks, r.next + 1, Append(acc, r.val))
        ELSE IF IsP(toks[r.next], "]")
        THEN ParseOk(List(Append(acc, r.val)), r.next + 1)
        ELSE ParseFail

\* the rest of an object whose next member starts at token i; a repeated
\* key keeps its last value
ParseMembers(toks, i, acc) ==
    IF i + 1 > Len(toks) \/ toks[i].t # "s" \/ ~IsP(toks[i + 1], ":")
    THEN ParseFail
    ELSE LET r == ParseValue(toks, i + 2)
         IN  IF ~r.ok \/ r.next > Len(toks) THEN ParseFail
             ELSE LET d == (toks[i].v :> r.val) @@ acc
                  IN  IF IsP(toks[r.next], ",")
                      THEN ParseMembers(toks, r.next + 1, d)
                      ELSE IF IsP(toks[r.next], "}")
                      THEN ParseOk(Dict(d), r.next + 1)
                      ELSE ParseFail

\* the exception json.loads(body) raises, "none" when it returns
JsonLoadsRaises(body) ==
    IF ~body.utf8 THEN "UnicodeDecodeError"
    ELSE LET r == ParseValue(body.toks, 1)
         IN  IF r.ok /\ r.next = Len(body.toks) + 1 THEN "none"
             ELSE "JSONDecodeError"

\* json.loads(body), when it returns
JsonLoads(body) == ParseValue(body.toks, 1).val

RECURSIVE SetToSeq(_)
SetToSeq(s) ==
    IF s = {} THEN <<>>
    ELSE LET x == CHOOSE y \in s : TRUE IN <<x>> \o SetToSeq(s \ {x})

RECURSIVE DumpValue(_), DumpElements(_), DumpMembers(_, _)

\* json.dumps: the tokens of a value
DumpValue(val) ==
    CASE val.t = "str" -> <<S(val.v)>>
      [] val.t = "num" -> <<N(val.v)>>
      [] val.t = "null" -> <<NullTok>>
      [] val.t = "list" -> <<P("[")>> \o DumpElements(val.v) \o <<P("]")>>
      [] val.t = "dict" ->
           <<P("{")>> \o DumpMembers(val.v, SetToSeq(DOMAIN val.v))
                      \o <<P("}")>>

DumpElements(l) ==
    IF l = <<>> THEN <<>>
    ELSE IF Len(l) = 1 THEN DumpValue(l[1])
    ELSE DumpValue(l[1]) \o <<P(",")>> \o DumpElements(Tail(l))

DumpMembers(d, keys) ==
    IF keys = <<>> THEN <<>>
    ELSE LET m == <<S(keys[1]), P(":")>> \o DumpValue(d[keys[1]])
         IN  IF Len(keys) = 1 THEN m
             ELSE m \o <<P(",")>> \o DumpMembers(d, Tail(keys))

-----------------------------------------------------------------------------
(* What parameter.wrapper does with `data`, whatever its Python type *)

IsMapping(d) == d.t \in {"dict", "querydict"}

\* `key in data` raises TypeError: an int and None are not iterable
KeyInRaises(d) == d.t \in {"num", "null"}

\* `key in data`
KeyIn(key, d) ==
    CASE IsMapping(d) -> key \in DOMAIN d.v
      [] d.t = "list" -> \E i \in 1..Len(d.v) : d.v[i] = Str(key)
      [] d.t = "str" -> StrContains(d.v, key)
      [] OTHER -> FALSE

\* data.get(key) raises AttributeError: lists and strings have no get
GetRaises(d) == d.t \in {"list", "str"}

\* data.get(key) for a key of data; a QueryDict gives the last value of the key
DataGet(d, key) ==
    IF d.t = "querydict" THEN Str(Last(d.v[key])) ELSE d.v[key]

-----------------------------------------------------------------------------
(* jsonschema.validate, for the keywords type, required and properties *)

IsType(val, type) ==
    CASE type = "object" -> IsMapping(val)
      [] type = "array" -> val.t = "list"
      [] type = "string" -> val.t = "str"
      [] type = "integer" -> val.t = "num"
      [] type = "null" -> val.t = "null"
      [] OTHER -> FALSE

\* validate(d, sch) raises ValidationError
ValidationFails(d, sch) ==
    \/ "type" \in DOMAIN sch /\ ~IsType(d, sch.type)
    \/ /\ IsMapping(d)
       /\ "required" \in DOMAIN sch
       /\ \E k \in sch.required : k \notin DOMAIN d.v
    \/ /\ IsMapping(d)
       /\ "properties" \in DOMAIN sch
       /\ \E k \in DOMAIN sch.properties \cap DOMAIN d.v :
            /\ "type" \in DOMAIN sch.properties[k]
            /\ ~IsType(DataGet(d, k), sch.properties[k].type)

-----------------------------------------------------------------------------
(* parameter *)

JSON == "application/json"

\* schema.get('properties', {})
Properties(sch) ==
    IF "properties" \in DOMAIN sch THEN sch.properties ELSE EmptyDict

\* faulty variant: the last branch reads the query parameters
SelectSourceQueryForAnyVerb(req) ==
    IF req.content_type = JSON THEN "json"
    ELSE IF req.method = "POST" THEN "form"
    ELSE "query"

\* faulty variant: the verb is tested before the content type
SelectSourceVerbFirst(req) ==
    IF req.method = "POST" THEN "form"
    ELSE IF req.method = "GET" THEN "query"
    ELSE IF req.content_type = JSON THEN "json"
    ELSE "empty"

\* the branch that binds `data`
SelectSource(req) ==
    IF req.content_type = JSON THEN "json"
    ELSE IF req.method = "POST" THEN "form"
    ELSE IF req.method = "GET" THEN "query"
    ELSE "empty"

\* the value bound to `data`, when json.loads does not raise
SelectData(req) ==
    LET source == SelectSource(req)
    IN  CASE source = "json" -> JsonLoads(req.body)
          [] source = "form" -> QueryDict(req.POST)
          [] source = "query" -> QueryDict(req.GET)
          [] OTHER -> Dict(EmptyDict)

\* the exception the dict comprehension raises, "none" when it builds the dict
NormalizeRaises(d, properties) ==
    IF DOMAIN properties = {} THEN "none"
    ELSE IF KeyInRaises(d) THEN "TypeError"
    ELSE IF GetRaises(d) /\ \E key \in DOMAIN properties : KeyIn(key, d)
    THEN "AttributeError"
    ELSE "none"

\* faulty variant: a falsy input value is replaced by the default
NormalizeTruthy(d, properties) ==
    LET truthy(key) == KeyIn(key, d) /\ DataGet(d, key) \notin {Null, Str(<<>>)}
        keys == { key \in DOMAIN properties :
                    truthy(key) \/ "default" \in DOMAIN properties[key] }
    IN  [key \in keys |->
            IF truthy(key) THEN DataGet(d, key) ELSE properties[key].default]

\* the dict comprehension assigned to request.data
Normalize(d, properties) ==
    LET keys == { key \in DOMAIN properties :
                    KeyIn(key, d) \/ "default" \in DOMAIN properties[key] }
    IN  [key \in keys |->
            IF KeyIn(key, d) THEN DataGet(d, key) ELSE properties[key].default]

\* parameter's wrapper
parameter_wrapper(req, rsp) ==
    LET loads == IF SelectSource(req) = "json"
                 THEN JsonLoadsRaises(req.body) ELSE "none"
    IN  IF loads = "JSONDecodeError"
        THEN Ended(req.attrs, HttpResponseIncorrectParameter(loads), <<>>,
                   Unbound)
        ELSE IF loads # "none"
        THEN Ended(req.attrs, Raise(loads), <<>>, Unbound)
        ELSE LET d == SelectData(req)
                 properties == Properties(schema)
                 raised == NormalizeRaises(d, properties)
             IN  IF ValidationFails(d, schema)
                 THEN Ended(req.attrs,
                            HttpResponseIncorrectParameter("ValidationError"),
                            <<>>, d)
                 ELSE IF raised # "none"
                 THEN Ended(req.attrs, Raise(raised), <<>>, d)
                 ELSE CallFunc(SetAttr(req.attrs, "data",
                                       Dict(Normalize(d, properties))),
                               rsp, d)

\* property names and string values
Name == <<"n", "a", "m", "e">>
KeyN == <<"n">>
KeyX == <<"x">>
Anon == <<"a", "n", "o", "n">>
Alice == <<"a", "l", "i", "c", "e">>
Abc == <<"a", "b", "c">>
Empty == <<>>

\* {"properties": {"name": {"default": "anon"}}}
SchemaDefault == [properties |-> (Name :> [default |-> Str(Anon)])]

\* {"properties": {"name": {}}}
SchemaNoDefault == [properties |-> (Name :> EmptyDict)]

\* an object with a required string "name" and an integer "n" defaulting to 10
SchemaTyped ==
    [type |-> "object", required |-> {Name},
     properties |-> (Name :> [type |-> "string"])
                    @@ (KeyN :> [type |-> "integer", default |-> Num(10)])]

\* the default of "n" is not of the declared type
SchemaBadDefault ==
    [properties |-> (KeyN :> [type |-> "integer", default |-> Str(Abc)])
                    @@ (Name :> [default |-> Null])]

\* "x" is required and no declared property
SchemaRequiresUndeclared ==
    [required |-> {KeyX}, properties |-> (Name :> [default |-> Str(Anon)])]

\* {}
SchemaNone == EmptyDict

Schemas ==
    {SchemaDefault, SchemaNoDefault, SchemaTyped, SchemaBadDefault,
     SchemaRequiresUndeclared, SchemaNone}

Text(toks) == [utf8 |-> TRUE, toks |-> toks]

\* bytes that are no UTF-8, UTF-16 or UTF-32 text, such as b'\xff'
Undecodable == [utf8 |-> FALSE, toks |-> <<>>]

Bodies ==
    { Text(<<P("{"), P("}")>>),
      Text(<<P("{"), S(Name), P(":"), S(Alice), P("}")>>),
      Text(<<P("{"), S(Name), P(":"), S(Empty), P("}")>>),
      Text(<<P("{"), S(Name), P(":"), NullTok, P("}")>>),
      Text(<<P("{"), S(Name), P(":"), S(Alice), P(","), S(KeyN), P(":"), N(5),
             P("}")>>),
      Text(<<P("{"), S(KeyN), P(":"), S(Abc), P("}")>>),
      Text(<<P("{"), S(Name), P(":"), S(Alice), P(","), S(KeyX), P(":"), N(1),
             P("}")>>),
      Text(<<P("{"), S(Name), P(":"), S(Abc), P(","), S(Name), P(":"),
             S(Alice), P("}")>>),
      Text(<<P("{"), S(Name), P(":"), P("{"), S(KeyX), P(":"), P("["), N(1),
             P("]"), P("}"), P("}")>>),
      Text(<<P("["), P("]")>>),
      Text(<<P("["), S(Name), P("]")>>),
      Text(<<P("["), S(Abc), P(","), N(1), P("]")>>),
      Text(<<S(Name)>>),
      Text(<<S(Abc)>>),
      Text(<<N(5)>>),
      Text(<<NullTok>>),
      Text(<<BadTok>>),
      Text(<<>>),
      Text(<<P("{"), S(Name), P(":")>>),
      Text(<<P("{"), P("}"), P("{"), P("}")>>),
      Text(<<P("{"), S(Name), P(":"), S(Alice), P(","), P("}")>>),
      Undecodable }

\* query strings and form bodies, as Django parses them
QueryDicts ==
    { EmptyDict,
      Name :> <<Alice>>,
      Name :> <<Empty>>,
      Name :> <<Alice, Abc>>,
      (Name :> <<Abc>>) @@ (KeyX :> <<Alice>>),
      KeyN :> <<Abc>> }

ContentTypes ==
    {JSON, "application/x-www-form-urlencoded",
     "application/json; charset=utf-8", ""}

JsonRequests ==
    { [PlainRequest EXCEPT !.method = m, !.content_type = c, !.body = b,
                           !.GET = g, !.attrs = a] :
        m \in Verbs, c \in {JSON, "application/json; charset=utf-8"},
        b \in Bodies, g \in {EmptyDict, Name :> <<Abc>>}, a \in IncomingAttrs }

FormRequests ==
    { [PlainRequest EXCEPT !.method = m, !.content_type = c, !.GET = g,
                           !.POST = f, !.attrs = a] :
        m \in Verbs, c \in ContentTypes, g \in QueryDicts, f \in QueryDicts,
        a \in IncomingAttrs }

ParameterRequests == JsonRequests \cup FormRequests

\* the re-submission of a normalized mapping d as a JSON body
Resubmission(d, m) ==
    [PlainRequest EXCEPT !.method = m, !.content_type = JSON,
                         !.body = Text(DumpValue(d))]

-----------------------------------------------------------------------------
(* pagination *)

Page == <<"p", "a", "g", "e">>
Size == <<"s", "i", "z", "e">>

Min(a, b) == IF a <= b THEN a ELSE b
Max(a, b) == IF a >= b THEN a ELSE b

\* request.GET.get(key, default)
QueryGet(q, key, default) == IF key \in DOMAIN q THEN Last(q[key]) ELSE default

\* faulty variant: min and max exchanged
ClampSwapped(n, min_size, max_size) == Max(Min(n, min_size), max_size)

\* min(max(n, min_size), max_size)
Clamp(n, min_size, max_size) == Min(Max(n, min_size), max_size)

\* faulty variant: page and size are parsed whatever the verb
pagination_wrapper_parse_first(req, rsp) ==
    LET page == QueryGet(req.GET, Page, <<"1">>)
        size == QueryGet(req.GET, Size, StrOf(pager.default))
    IN  IF IntRaises(page) \/ IntRaises(size)
        THEN Ended(req.attrs, HttpResponseIncorrectParameter("ValueError"),
                   <<>>, Unbound)
        ELSE CallFunc(SetAttr(SetAttr(req.attrs, "page", IntOf(page)), "size",
                              Clamp(IntOf(size), pager.min_size,
                                    pager.max_size)),
                      rsp, Unbound)

\* pagination's wrapper; request.page is assigned before int(size) is evaluated
pagination_wrapper(req, rsp) ==
    IF req.method # "GET" THEN CallFunc(req.attrs, rsp, Unbound)
    ELSE LET page == QueryGet(req.GET, Page, <<"1">>)
             size == QueryGet(req.GET, Size, StrOf(pager.default))
         IN  IF IntRaises(page)
             THEN Ended(req.attrs,
                        HttpResponseIncorrectParameter("ValueError"), <<>>,
                        Unbound)
             ELSE IF IntRaises(size)
             THEN Ended(SetAttr(req.attrs, "page", IntOf(page)),
                        HttpResponseIncorrectParameter("ValueError"), <<>>,
                        Unbound)
             ELSE CallFunc(SetAttr(SetAttr(req.attrs, "page", IntOf(page)),
                                   "size",
                                   Clamp(IntOf(size), pager.min_size,
                                         pager.max_size)),
                           rsp, Unbound)

\* values of the page and size query parameters
NumberStrings ==
    { <<"9", "9", "9">>, <<"0">>, <<"2">>, <<"1", "5">>, <<"-", "5">>,
      <<" ", "7", " ">>, <<"1", "_", "0">>, <<"a", "b", "c">>,
      <<"3", ".", "5">>, <<>> }

\* the lists of values a query parameter may have; the empty list stands for
\* a parameter the query string does not have
ValueLists ==
    {<<>>} \cup { <<n>> : n \in NumberStrings }
           \cup {<<<<"a", "b", "c">>, <<"2">>>>, <<<<"2">>, <<"a", "b", "c">>>>}

PageQuery(pages, sizes) ==
    (IF pages = <<>> THEN EmptyDict ELSE Page :> pages)
        @@ (IF sizes = <<>> THEN EmptyDict ELSE Size :> sizes)

PaginationRequests ==
    { [PlainRequest EXCEPT !.method = m, !.GET = PageQuery(ps, ss),
                           !.attrs = a] :
        m \in Verbs, ps \in ValueLists, ss \in ValueLists,
        a \in IncomingAttrs }

\* def pagination(default=10, min_size=1, max_size=20)
DefaultPager == [default |-> 10, min_size |-> 1, max_size |-> 20]

Pagers ==
    {DefaultPager}
        \cup [default : 0..MaxArg, min_size : 0..MaxArg, max_size : 0..MaxArg]

-----------------------------------------------------------------------------
(* Actions *)

\* A wrapper keeps nothing from one request to the next (its only state is
\* what the decorator was constructed with), so a behaviour follows one
\* request: the call of the wrapper, and for parameter the re-submission of
\* its result.
Handle(req, r) ==
    /\ pc' = "done"
    /\ request' = req
    /\ attrs' = r.attrs
    /\ outcome' = r.outcome
    /\ calls' = r.calls
    /\ data' = r.data
    /\ UNCHANGED construction

Authenticate ==
    /\ decorator = "authenticate"
    /\ pc = "ready"
    /\ \E req \in AuthRequests, rsp \in FuncResponses :
        Handle(req, authenticate_wrapper(req, rsp))
    /\ UNCHANGED previous

Allow ==
    /\ decorator = "allow"
    /\ pc = "ready"
    /\ \E req \in AllowRequests, rsp \in FuncResponses :
        Handle(req, allow_wrapper(req, rsp))
    /\ UNCHANGED previous

Parameter ==
    /\ decorator = "parameter"
    /\ pc = "ready"
    /\ \E req \in ParameterRequests, rsp \in FuncResponses :
        Handle(req, parameter_wrapper(req, rsp))
    /\ UNCHANGED previous

\* parameter on the requests whose body is text
ParameterText ==
    /\ decorator = "parameter"
    /\ pc = "ready"
    /\ \E req \in { r \in JsonRequests : r.body.utf8 }, rsp \in FuncResponses :
        Handle(req, parameter_wrapper(req, rsp))
    /\ UNCHANGED previous

\* the client sends back, as a JSON body, the request.data of the call
Resubmit ==
    /\ decorator = "parameter"
    /\ pc = "done"
    /\ previous = Unbound
    /\ calls # <<>>
    /\ \E m \in Verbs, rsp \in FuncResponses :
        LET req == Resubmission(attrs.data, m)
        IN  Handle(req, parameter_wrapper(req, rsp))
    /\ previous' = attrs.data

Pagination ==
    /\ decorator = "pagination"
    /\ pc = "ready"
    /\ \E req \in PaginationRequests, rsp \in FuncResponses :
        Handle(req, pagination_wrapper(req, rsp))
    /\ UNCHANGED previous

Ready ==
    /\ pc = "ready"
    /\ request = PlainRequest
    /\ attrs = <<>>
    /\ data = Unbound
    /\ outcome = NoOutcome
    /\ calls = <<>>
    /\ previous = Unbound

InitAuth ==
    /\ decorator = "authenticate"
    /\ users \in SUBSET {"u1", "u2"}
    /\ methods = {}
    /\ schema = EmptyDict
    /\ pager = DefaultPager
    /\ Ready

InitAllow ==
    /\ decorator = "allow"
    /\ users = {}
    /\ methods \in SUBSET Verbs
    /\ schema = EmptyDict
    /\ pager = DefaultPager
    /\ Ready

InitParameter ==
    /\ decorator = "parameter"
    /\ users = {}
    /\ methods = {}
    /\ schema \in Schemas
    /\ pager = DefaultPager
    /\ Ready

InitPagination ==
    /\ decorator = "pagination"
    /\ users = {}
    /\ methods = {}
    /\ schema = EmptyDict
    /\ pager \in Pagers
    /\ Ready

Init == InitAuth \/ InitAllow \/ InitParameter \/ InitPagination

Next == Authenticate \/ Allow \/ Parameter \/ Resubmit \/ Pagination

NextParameter == Parameter \/ Resubmit

Spec == Init /\ [][Next]_vars

SpecAuth == InitAuth /\ [][Authenticate]_vars

SpecAllow == InitAllow /\ [][Allow]_vars

SpecParameter == InitParameter /\ [][NextParameter]_vars

SpecPagination == InitPagination /\ [][Pagination]_vars

SpecParameterText == InitParameter /\ [][ParameterText]_vars

-----------------------------------------------------------------------------
(* Properties *)

Done(name) == decorator = name /\ pc = "done"

\* func was called exactly once, saw the attributes the wrapper left, and its
\* response is what the wrapper returned
Delegated ==
    /\ Len(calls) = 1
    /\ calls[1].request = attrs
    /\ outcome = calls[1].response

\* the wrapper returned a response of its own and never called func
ShortCircuited == outcome.kind = "return" /\ outcome.by = "wrapper" /\ calls = <<>>

\* C1: authenticate answers 401, without calling func or setting request.user,
\* when the session has no user_id or the id is no row of User; otherwise it
\* sets request.user to the row, calls func once and returns its response.
C1_Authenticate ==
    Done("authenticate") =>
        IF /\ "user_id" \in DOMAIN request.session
           /\ request.session.user_id \in users
        THEN /\ Delegated
             /\ attrs = SetAttr(request.attrs, "user",
                                [id |-> request.session.user_id])
        ELSE /\ ShortCircuited
             /\ outcome.status = 401
             /\ attrs = request.attrs

\* a session whose user_id is no row of a non-empty User table was refused
C1_Witness ==
    /\ Done("authenticate")
    /\ "user_id" \in DOMAIN request.session
    /\ users # {}
    /\ request.session.user_id \notin users
    /\ outcome.status = 401
    /\ calls = <<>>

\* C2: allow answers 404 without calling func when the verb is not in the
\* allowed set; otherwise it calls func once with the request as it came and
\* returns its response.
C2_Allow ==
    Done("allow") =>
        /\ attrs = request.attrs
        /\ IF request.method \in methods
           THEN Delegated
           ELSE ShortCircuited /\ outcome.status = 404

\* a verb outside a non-empty allowed set was refused
C2_Witness ==
    /\ Done("allow")
    /\ methods # {}
    /\ request.method \notin methods
    /\ outcome.status = 404
    /\ calls = <<>>

\* C3: the input parameter validates is the parsed JSON body when the content
\* type is "application/json", whatever the verb; else the form parameters of a
\* POST; else the query parameters of a GET; else the empty mapping.
C3_InputSource ==
    (Done("parameter") /\ previous = Unbound) =>
        IF request.content_type = "application/json"
        THEN IF JsonLoadsRaises(request.body) = "none"
             THEN data = JsonLoads(request.body)
             ELSE data = Unbound
        ELSE IF request.method = "POST" THEN data = QueryDict(request.POST)
        ELSE IF request.method = "GET" THEN data = QueryDict(request.GET)
        ELSE data = Dict(EmptyDict)

\* a GET with a query string and a JSON body had its body validated
C3_Witness ==
    /\ Done("parameter")
    /\ previous = Unbound
    /\ request.method = "GET"
    /\ request.content_type = "application/json"
    /\ request.GET = (Name :> <<Abc>>)
    /\ data = Dict(Name :> Str(Alice))
    /\ calls # <<>>

\* the declared properties request.data must hold for the input d
ExpectedKeys(d) ==
    { k \in DOMAIN Properties(schema) :
        \/ IsMapping(d) /\ k \in DOMAIN d.v
        \/ "default" \in DOMAIN Properties(schema)[k] }

\* the value the input mapping d has for its key k
InputValue(d, k) == IF d.t = "querydict" THEN Str(Last(d.v[k])) ELSE d.v[k]

\* C4: when func is called, request.data has exactly the declared properties
\* that the input has or that declare a default, with the input's value when
\* the key is present (empty and null values included) and the default
\* otherwise; undeclared input keys are dropped.
C4_Normalization ==
    (Done("parameter") /\ calls # <<>>) =>
        /\ "data" \in DOMAIN attrs
        /\ attrs.data.t = "dict"
        /\ DOMAIN attrs.data.v = ExpectedKeys(data)
        /\ \A k \in DOMAIN attrs.data.v :
            attrs.data.v[k] =
                IF IsMapping(data) /\ k \in DOMAIN data.v
                THEN InputValue(data, k)
                ELSE Properties(schema)[k].default

\* an empty string sent for a property with a default was kept
C4_Witness ==
    /\ Done("parameter")
    /\ calls # <<>>
    /\ schema = SchemaDefault
    /\ data = Dict(Name :> Str(Empty))
    /\ attrs.data = Dict(Name :> Str(Empty))

\* C5: a JSON body that does not parse, and an input the validator rejects,
\* both end in the "incorrect parameter" response with the error's
\* description, func not called and request.data not set; func is called only
\* with an input the validator accepted.
C5_FailureShortCircuit ==
    Done("parameter") =>
        /\ ( \/ /\ request.content_type = "application/json"
                /\ JsonLoadsRaises(request.body) # "none"
             \/ data # Unbound /\ ValidationFails(data, schema) )
           => /\ ShortCircuited
              /\ outcome.class = "HttpResponseIncorrectParameter"
              /\ outcome.content # "none"
              /\ attrs = request.attrs
        /\ calls # <<>> => data # Unbound /\ ~ValidationFails(data, schema)

\* C6: sending the normalized mapping back as a JSON body succeeds and gives
\* the same request.data.
C6_Idempotence ==
    (Done("parameter") /\ previous # Unbound) =>
        Delegated /\ attrs.data = previous

\* C6 as amended: the second run never raises; it ends in the "incorrect
\* parameter" response exactly when the validator rejects the normalized
\* mapping, and otherwise calls func with request.data equal to it.
C6_IdempotenceWhenAccepted ==
    (Done("parameter") /\ previous # Unbound) =>
        IF ValidationFails(previous, schema)
        THEN /\ ShortCircuited
             /\ outcome = HttpResponseIncorrectParameter("ValidationError")
        ELSE Delegated /\ attrs.data = previous

\* a mapping with a filled default and an input value came back unchanged
C6_Witness ==
    /\ Done("parameter")
    /\ schema = SchemaTyped
    /\ previous = Dict((Name :> Str(Alice)) @@ (KeyN :> Num(10)))
    /\ attrs.data = previous
    /\ calls # <<>>

\* the last value of the query parameter key, <<>> when the query has none
Param(key) == IF key \in DOMAIN request.GET THEN Last(request.GET[key]) ELSE <<>>

Absent(key) == key \notin DOMAIN request.GET

\* what C7 says of request.page and of the named sizes
C7_PageAndExamples ==
    /\ attrs.page = IF Absent(Page) THEN 1 ELSE IntOf(Param(Page))
    /\ Param(Page) = <<"0">> => attrs.page = 0
    /\ Param(Page) = <<"-", "5">> => attrs.page = 0 - 5
    /\ pager = DefaultPager =>
        /\ Param(Size) = <<"9", "9", "9">> => attrs.size = 20
        /\ Param(Size) = <<"0">> => attrs.size = 1
        /\ Absent(Size) => attrs.size = 10

\* C7: on every GET that reaches func, min_size <= request.size <= max_size
\* for every default, min_size and max_size; request.page is the parsed page.
C7_SizeClamped ==
    (Done("pagination") /\ request.method = "GET" /\ calls # <<>>) =>
        /\ pager.min_size <= attrs.size
        /\ attrs.size <= pager.max_size
        /\ C7_PageAndExamples

\* C7 as amended: request.size <= max_size always, and min_size <= request.size
\* when min_size <= max_size; with min_size > max_size request.size is
\* max_size.
C7_SizeClampedWhenOrdered ==
    (Done("pagination") /\ request.method = "GET" /\ calls # <<>>) =>
        /\ attrs.size <= pager.max_size
        /\ pager.min_size <= pager.max_size => pager.min_size <= attrs.size
        /\ pager.min_size > pager.max_size => attrs.size = pager.max_size
        /\ C7_PageAndExamples

\* size=999 was cut down to max_size 20
C7_Witness ==
    /\ Done("pagination")
    /\ request.method = "GET"
    /\ pager = DefaultPager
    /\ Param(Size) = <<"9", "9", "9">>
    /\ calls # <<>>
    /\ attrs.size = 20

\* C8: on a verb other than GET pagination calls func once and leaves the
\* request as it came, whatever page and size are; it sets request.page and
\* request.size only on a GET.
C8_NonGetUntouched ==
    Done("pagination") =>
        /\ request.method # "GET" => Delegated /\ attrs = request.attrs
        /\ attrs # request.attrs => request.method = "GET"

\* a PUT whose page is no integer reached func with its attributes untouched
C8_Witness ==
    /\ Done("pagination")
    /\ request.method = "PUT"
    /\ Param(Page) = <<"a", "b", "c">>
    /\ request.attrs = StaleAttrs
    /\ attrs = StaleAttrs
    /\ Len(calls) = 1

\* C9: every call of a wrapper ends by returning a response, never by an
\* exception; a JSON body the validator accepts reaches func with
\* request.data set.
C9_NoExceptionEscapes ==
    pc = "done" =>
        /\ outcome.kind = "return"
        /\ ( /\ decorator = "parameter"
             /\ request.content_type = "application/json"
             /\ JsonLoadsRaises(request.body) = "none"
             /\ ~ValidationFails(JsonLoads(request.body), schema) )
           => Delegated /\ "data" \in DOMAIN attrs

\* C10: when pagination answers "incorrect parameter" it has set neither
\* request.page nor request.size; the two are set together or not at all.
C10_ErrorLeavesRequest ==
    Done("pagination") =>
        /\ outcome.class = "HttpResponseIncorrectParameter" =>
            attrs = request.attrs
        /\ request.attrs = <<>> =>
            ("page" \in DOMAIN attrs <=> "size" \in DOMAIN attrs)

=============================================================================
